---- MODULE Spec2Model ----
(***************************************************************************)
(* SnapMag gallery: the merge applied to the image list after a copy-back  *)
(* (src/src/main.tsx, handleCopy) and the right-click routing between the  *)
(* App's document listener, the ContextMenu presenter and the lightbox.    *)
(*                                                                         *)
(* Seven specifications share the variables:                               *)
(*   MergeSpec     applies the merge of handleCopy to bounded input lists; *)
(*   Spec          is the event-driven state machine of App + ContextMenu; *)
(*   LightboxSpec  adds the interior of ImageLightbox and its own menu;    *)
(*   NavigationSpec presses previous / next in a lightbox opened on each   *)
(*                 of the bounded lists;                                   *)
(*   AdapterSpec   calls the functions of services/api;                    *)
(*   ResolveSpec   hands the two top-level right-click handlers an element *)
(*                 whose data-image-path names no record of the list;      *)
(*   CopySpec      runs the tail of one handleCopy against the refreshes   *)
(*                 of clipboard notifications.                             *)
(***************************************************************************)
EXTENDS Integers, Sequences, FiniteSets

VARIABLES
  \* ---- MergeSpec: the merge step of handleCopy as a pure function
  mIn,            \* the list the merge is applied to (prev)
  mPerm,          \* the same records in another arrival order
  mOut,           \* merge(mIn)
  mOutP,          \* merge(mPerm)
  mOut2,          \* merge(merge(mIn))
  mpc,            \* "start" | "merged" | "remerged"
  \* ---- Spec: App state (main.tsx)
  images,         \* useState<ImageMetadata[]>            main.tsx:49
  contextMenu,    \* useState {position, image}           main.tsx:50
  lightboxOpen,   \* useState(false)                      main.tsx:57
  lightboxIndex,  \* useState(0)                          main.tsx:58
  lastCloseTime,  \* lastCloseTimeRef.current             main.tsx:63
  clock,          \* Date.now()
  inflight,       \* the store call handleCopy / handleDelete / handleClearAll awaits
  \* ---- ImageLightbox state (ImageLightbox.tsx)
  currentIndex,   \* useState(slideIndex)                 ImageLightbox.tsx:150
  lightboxMenu,   \* useState {position, image}           ImageLightbox.tsx:151
  isClosing,      \* isClosingRef.current                 ImageLightbox.tsx:160
  frame,          \* the requestAnimationFrame callbacks waiting for the next frame
  \* ---- AdapterSpec: services/api
  tauri,          \* what checkIsTauri() answers: is the store collaborator there
  isTauriCache,   \* let isTauriCache: "null" | TRUE | FALSE
  invoked,        \* the commands sent to the collaborator through invoke()
  ret             \* how the last call of an adapter function settled

mergeVars == <<mIn, mPerm, mOut, mOutP, mOut2, mpc>>
appVars   == <<images, contextMenu, lightboxOpen, lightboxIndex, lastCloseTime, clock, inflight>>
lightboxVars == <<currentIndex, lightboxMenu, isClosing, frame>>
adapterVars  == <<tauri, isTauriCache, invoked, ret>>
vars      == <<mIn, mPerm, mOut, mOutP, mOut2, mpc,
               images, contextMenu, lightboxOpen, lightboxIndex, lastCloseTime, clock, inflight,
               currentIndex, lightboxMenu, isClosing, frame,
               tauri, isTauriCache, invoked, ret>>

----------------------------------------------------------------------------
\* Bounds of the model

\* longest input list of MergeSpec
MaxLen == 3
\* identities 1..NumIds (ImageMetadata.id)
NumIds == 2
\* timestamps 1..NumTimes (ImageMetadata.createdAt)
NumTimes == 2
\* longest list the store returns in Spec
MaxGallery == 2
\* Date.now() at start-up, in ms; lastCloseTimeRef starts at 0, long before
StartTime == 1000
\* the clock advances in steps of TickMs, at most MaxTicks times
TickMs == 150
MaxTicks == 2
\* window.innerWidth
InnerWidth == 200

----------------------------------------------------------------------------
\* ImageMetadata (main.tsx:20-25): id = identity, path = locator

ImageMetadata(i, p, t) == [id |-> i, path |-> p, createdAt |-> t]

\* null for an image
NoImage == [id |-> 0, path |-> 0, createdAt |-> 0]

\* ContextMenuPosition (main.tsx:36-39); null is the empty tuple
NoPosition == <<>>
ContextMenuPosition(x, y) == [x |-> x, y |-> y]

\* the menu state of main.tsx:50-56
HiddenMenu == [position |-> NoPosition, image |-> NoImage]

\* a store call in flight and the await its handler is at; the store
\* serves one call at a time
Call(op, id, pc) == [op |-> op, id |-> id, pc |-> pc]
NoCall == Call("none", 0, "none")

\* The requestAnimationFrame callbacks registered since the last frame. They
\* all run in the next frame, in the order of registration, and each one is
\* "isClosingRef.current = false" (showContextMenu only) followed by
\* "if (currentImage) setContextMenu(menu)"; the record is their composition:
\* resets = one of them clears isClosingRef, sets = one of them sets the
\* menu, menu = the menu the last of those sets.
Frame(pending, resets, sets, menu) ==
  [pending |-> pending, resets |-> resets, sets |-> sets, menu |-> menu]
NoFrame == Frame(FALSE, FALSE, FALSE, HiddenMenu)

\* how a call of an adapter function settled: resolved with a value or
\* rejected, and whether it reached invoke()
Return(op, outcome, value, reached) ==
  [op |-> op, outcome |-> outcome, value |-> value, invoked |-> reached]
NoReturn == Return("none", "none", <<>>, FALSE)

----------------------------------------------------------------------------
\* The merge step of handleCopy (main.tsx:194-207)

\* the keys of contentGroups in Map insertion order: first occurrence of each id
RECURSIVE contentGroupKeys(_, _, _)
contentGroupKeys(prev, i, keys) ==
  IF i > Len(prev) THEN keys
  ELSE contentGroupKeys(prev, i + 1,
         IF \E k \in 1..Len(keys) : keys[k] = prev[i].id
         THEN keys ELSE Append(keys, prev[i].id))

\* contentGroups.get(id): the records of one id, in input order
contentGroup(prev, id) == SelectSeq(prev, LAMBDA img : img.id = id)

olderOfKeepsNewest(a, b) == IF a.createdAt > b.createdAt THEN a ELSE b

\* the reducer (a, b) => a.createdAt < b.createdAt ? a : b
olderOf(a, b) == IF a.createdAt < b.createdAt THEN a ELSE b

\* imgs.reduce(reducer): left fold without initial value
RECURSIVE reduceFrom(_, _, _)
reduceFrom(imgs, i, a) ==
  IF i > Len(imgs) THEN a ELSE reduceFrom(imgs, i + 1, olderOf(a, imgs[i]))

oldest(imgs) == reduceFrom(imgs, 2, imgs[1])

\* result: one push per group, in Map iteration order
groupResult(prev) ==
  LET keys == contentGroupKeys(prev, 1, <<>>)
  IN  [k \in 1..Len(keys) |-> oldest(contentGroup(prev, keys[k]))]

compareAscending(a, b) == a.createdAt - b.createdAt

compareNeverZero(a, b) == IF a.createdAt > b.createdAt THEN -1 ELSE 1

\* the comparator (a, b) => b.createdAt - a.createdAt
compare(a, b) == b.createdAt - a.createdAt

\* Array.prototype.sort is stable: an element goes before the first element
\* the comparator orders strictly after it, hence after its equals.
insertSorted(s, x) ==
  LET after == {j \in 1..Len(s) : compare(s[j], x) > 0}
      pos   == IF after = {} THEN Len(s) + 1
               ELSE CHOOSE j \in after : \A k \in after : j <= k
  IN  SubSeq(s, 1, pos - 1) \o <<x>> \o SubSeq(s, pos, Len(s))

RECURSIVE sortFrom(_, _, _)
sortFrom(result, i, sorted) ==
  IF i > Len(result) THEN sorted
  ELSE sortFrom(result, i + 1, insertSorted(sorted, result[i]))

sort(result) == sortFrom(result, 1, <<>>)

\* setImages(prev => ...) of handleCopy
merge(prev) == sort(groupResult(prev))

----------------------------------------------------------------------------
\* MergeSpec: inputs and steps

\* lists of at most MaxLen records with pairwise distinct paths
\* (the k-th record of the input has path k)
InputLists ==
  UNION { { [k \in 1..n |-> ImageMetadata(ids[k], k, ts[k])] :
              ids \in [1..n -> 1..NumIds], ts \in [1..n -> 1..NumTimes] } :
          n \in 0..MaxLen }

ArrivalOrders(L) ==
  { [k \in 1..Len(L) |-> L[f[k]]] :
      f \in { g \in [1..Len(L) -> 1..Len(L)] :
                \A a, b \in 1..Len(L) : a # b => g[a] # g[b] } }

\* App at construction (main.tsx:49-63), no store call started
AppInitial ==
  /\ images = <<>>
  /\ contextMenu = HiddenMenu
  /\ lightboxOpen = FALSE
  /\ lightboxIndex = 0
  /\ lastCloseTime = 0
  /\ clock = StartTime
  /\ inflight = NoCall

\* ImageLightbox at construction (ImageLightbox.tsx:150-160); App passes
\* slideIndex = lightboxIndex = 0
LightboxInitial ==
  /\ currentIndex = 0
  /\ lightboxMenu = HiddenMenu
  /\ isClosing = FALSE
  /\ frame = NoFrame

\* services/api before its first call (part_000:6); the collaborator is
\* not looked at
AdapterIdle ==
  /\ tauri = FALSE
  /\ isTauriCache = "null"
  /\ invoked = {}
  /\ ret = NoReturn

MergeInit ==
  /\ mIn \in InputLists
  /\ mPerm \in ArrivalOrders(mIn)
  /\ mOut = <<>> /\ mOutP = <<>> /\ mOut2 = <<>>
  /\ mpc = "start"
  /\ AppInitial
  /\ LightboxInitial
  /\ AdapterIdle

\* handleCopy's setImages updater runs on the list (and on its permutation)
ApplyMerge ==
  /\ mpc = "start"
  /\ mOut' = merge(mIn)
  /\ mOutP' = merge(mPerm)
  /\ mpc' = "merged"
  /\ UNCHANGED <<mIn, mPerm, mOut2>>
  /\ UNCHANGED appVars
  /\ UNCHANGED <<lightboxVars, adapterVars>>

\* a second copy action merges the merged list again
ApplyMergeAgain ==
  /\ mpc = "merged"
  /\ mOut2' = merge(mOut)
  /\ mpc' = "remerged"
  /\ UNCHANGED <<mIn, mPerm, mOut, mOutP>>
  /\ UNCHANGED appVars
  /\ UNCHANGED <<lightboxVars, adapterVars>>

MergeNext == ApplyMerge \/ ApplyMergeAgain

MergeSpec == MergeInit /\ [][MergeNext]_vars

----------------------------------------------------------------------------
\* Spec: the store and the pointer

\* What the store can hold: an original capture, its copy-back (the same
\* identity under another locator, captured later) and another image.
StoreRecords ==
  { ImageMetadata(1, 1, 1), ImageMetadata(1, 2, 2), ImageMetadata(2, 3, 3) }

\* the lists get_images can return: distinct records, at most MaxGallery
GalleryLists ==
  UNION { { L \in [1..n -> StoreRecords] :
              \A a, b \in 1..n : a # b => L[a] # L[b] } : n \in 0..MaxGallery }

\* clientX / clientY of a right-click
Xs == {8, 9}
Ys == {3, 4}

\* What lies under the pointer: a grid thumbnail (ImageCard of a rendered
\* record, inside <main>), the empty surface of <main>, or the window
\* outside <main>.
Hit(kind, path) == [kind |-> kind, path |-> path]

HitTargets(imgs) ==
  { Hit("card", imgs[k].path) : k \in 1..Len(imgs) }
    \cup { Hit("main", 0), Hit("outside", 0) }

Clicks(imgs) ==
  { [x |-> x, y |-> y, hit |-> h] : x \in Xs, y \in Ys, h \in HitTargets(imgs) }

----------------------------------------------------------------------------
\* Interaction router: App.handleNativeContextMenu (main.tsx:74-138)

\* the debounce of main.tsx:77
DEBOUNCE_MS == 300

findFirstImage(imgs, path) == IF Len(imgs) > 0 THEN imgs[1] ELSE NoImage

\* images.find(img => img.path === path), null when there is none
find(imgs, path) ==
  LET hits == {k \in 1..Len(imgs) : imgs[k].path = path}
  IN  IF hits = {} THEN NoImage
      ELSE imgs[CHOOSE k \in hits : \A h \in hits : k <= h]

\* element?.closest('main')
insideMain(hit) == hit.kind \in {"card", "main"}

\* a handler's setContextMenu call, or none
NoDecision == [set |-> FALSE, menu |-> HiddenMenu]
Decision(position, image) ==
  [set |-> TRUE, menu |-> [position |-> position, image |-> image]]

handleNativeContextMenuIgnoresOpenMenu(menuRef, imgs, lastClose, now, c) ==
  IF now - lastClose < DEBOUNCE_MS THEN NoDecision
  ELSE IF c.hit.kind = "card" /\ find(imgs, c.hit.path) # NoImage
    THEN Decision(ContextMenuPosition(c.x, c.y), find(imgs, c.hit.path))
  ELSE IF insideMain(c.hit) /\ Len(imgs) > 0
    THEN Decision(ContextMenuPosition(c.x, c.y), NoImage)
  ELSE NoDecision

\* menuRef is contextMenuRef.current, the menu state of the last render
handleNativeContextMenu(menuRef, imgs, lastClose, now, c) ==
  IF now - lastClose < DEBOUNCE_MS THEN NoDecision
  ELSE IF menuRef.position # NoPosition THEN NoDecision
  ELSE IF c.hit.kind = "card" /\ find(imgs, c.hit.path) # NoImage
    THEN Decision(ContextMenuPosition(c.x, c.y), find(imgs, c.hit.path))
  ELSE IF c.hit.kind = "lightboxImage" /\ find(imgs, c.hit.path) # NoImage
    THEN Decision(ContextMenuPosition(c.x, c.y), find(imgs, c.hit.path))
  ELSE IF insideMain(c.hit) /\ Len(imgs) > 0
    THEN Decision(ContextMenuPosition(c.x, c.y), NoImage)
  ELSE NoDecision

\* whether the router calls e.preventDefault(): line 86 follows the two
\* early returns (main.tsx:77-84) and precedes every branch
preventDefault(menuRef, lastClose, now) ==
  ~(now - lastClose < DEBOUNCE_MS) /\ ~(menuRef.position # NoPosition)

----------------------------------------------------------------------------
\* Menu presenter: ContextMenu (ContextMenu.tsx)

\* the path the presenter's listener resolves (ContextMenu.tsx:50-71):
\* closest('[data-image-path]') of the target, else the ImageCard among
\* elementsFromPoint, else null (0)
repositionTargetPath(c) ==
  IF c.hit.kind \in {"card", "lightboxImage"} THEN c.hit.path ELSE 0

\* App's onReposition (main.tsx:269-277)
onReposition(imgs, position, targetImagePath) ==
  Decision(position,
           IF targetImagePath # 0 THEN find(imgs, targetImagePath) ELSE NoImage)

\* ContextMenu.handleNativeContextMenu with onReposition given
\* (ContextMenu.tsx:37-73); a right-click has event.button = 2
presenterHandleNativeContextMenu(imgs, c) ==
  onReposition(imgs, ContextMenuPosition(c.x, c.y), repositionTargetPath(c))

MENU_WIDTH == 192
MENU_OVERFLOW_THRESHOLD == MENU_WIDTH * 1

adjustedPositionFlipsAtEqual(position) ==
  IF position = NoPosition THEN NoPosition
  ELSE IF InnerWidth - position.x <= MENU_OVERFLOW_THRESHOLD
    THEN [x |-> position.x - MENU_WIDTH, y |-> position.y]
  ELSE [x |-> position.x, y |-> position.y]

\* the rendered anchor (ContextMenu.tsx:85-102)
adjustedPosition(position) ==
  IF position = NoPosition THEN NoPosition
  ELSE IF InnerWidth - position.x < MENU_OVERFLOW_THRESHOLD
    THEN [x |-> position.x - MENU_WIDTH, y |-> position.y]
  ELSE [x |-> position.x, y |-> position.y]

\* the entries of the menu (ContextMenu.tsx:106-130)
menuItemsIgnoresTarget(image) == <<"copy", "delete">>

menuItems(image) ==
  IF image # NoImage THEN <<"copy", "delete">> ELSE <<"clear">>

PresenterAlwaysMounted == TRUE

\* the top-level ContextMenu is mounted while the lightbox is closed
\* (main.tsx:261) and draws its overlay and entries when it has a position
\* (ContextMenu.tsx:104)
PresenterMounted == ~lightboxOpen
MenuRendered == PresenterMounted /\ contextMenu.position # NoPosition

----------------------------------------------------------------------------
\* Spec: actions

\* One right-click while the lightbox is closed. Both capture listeners on
\* document run: App's (main.tsx:169) and the mounted ContextMenu's
\* (ContextMenu.tsx:76). Their order is the order of registration, which the
\* last render decides, and React may commit the first listener's update
\* before the second runs (flush) or batch both. A commit re-registers the
\* presenter's listener (its effect depends on onReposition, a new function
\* on every render), and a listener added during the dispatch does not run.
dispatchContextMenu(menu, imgs, lastClose, now, c, presenterFirst, flush) ==
  LET p == presenterHandleNativeContextMenu(imgs, c)
  IN  IF presenterFirst
      THEN LET r == handleNativeContextMenu(IF flush THEN p.menu ELSE menu,
                                            imgs, lastClose, now, c)
           IN  IF r.set THEN r.menu ELSE p.menu
      ELSE LET r == handleNativeContextMenu(menu, imgs, lastClose, now, c)
           IN  IF r.set /\ flush THEN r.menu ELSE p.menu

RightClick(c) ==
  /\ ~lightboxOpen
  /\ UNCHANGED <<images, lightboxOpen, lightboxIndex, lastCloseTime, clock, inflight>>
  /\ UNCHANGED lightboxVars
  /\ UNCHANGED <<mergeVars, adapterVars>>
  /\ contextMenu' \in
       { dispatchContextMenu(contextMenu, images, lastCloseTime, clock, c,
                             presenterFirst, flush) :
           presenterFirst \in BOOLEAN, flush \in BOOLEAN }

handleCloseKeepsImage ==
  /\ lastCloseTime' = clock
  /\ contextMenu' = [contextMenu EXCEPT !.position = NoPosition]

\* App.handleCloseContextMenu (main.tsx:179-182)
handleCloseContextMenu ==
  /\ lastCloseTime' = clock
  /\ contextMenu' = HiddenMenu

\* keydown Escape: the presenter's listener is installed while it is mounted
\* (ContextMenu.tsx:30-35, 75)
EscapeKey ==
  /\ PresenterMounted
  /\ handleCloseContextMenu
  /\ UNCHANGED <<images, lightboxOpen, lightboxIndex, clock, inflight>>
  /\ UNCHANGED lightboxVars
  /\ UNCHANGED <<mergeVars, adapterVars>>

\* left button pressed on the dimming overlay (ContextMenu.tsx:137-144)
OverlayMouseDown ==
  /\ MenuRendered
  /\ handleCloseContextMenu
  /\ UNCHANGED <<images, lightboxOpen, lightboxIndex, clock, inflight>>
  /\ UNCHANGED lightboxVars
  /\ UNCHANGED <<mergeVars, adapterVars>>

\* left button released on the dimming overlay (ContextMenu.tsx:145-152)
OverlayMouseUp ==
  /\ MenuRendered
  /\ handleCloseContextMenu
  /\ UNCHANGED <<images, lightboxOpen, lightboxIndex, clock, inflight>>
  /\ UNCHANGED lightboxVars
  /\ UNCHANGED <<mergeVars, adapterVars>>

\* the store call an entry starts: handleCopy awaits resetClipboardHash
\* (main.tsx:186), handleDelete deleteImage (main.tsx:216), handleClearAll
\* clearAllImages (main.tsx:227)
startCall(entry, image) ==
  IF entry = "copy" THEN Call("copy", 0, "reset")
  ELSE IF entry = "delete" THEN Call("delete", image.id, "call")
  ELSE Call("clear", 0, "call")

\* click on the k-th entry: item.onClick() then onClose()
\* (ContextMenu.tsx:183-186)
SelectEntry(k) ==
  /\ MenuRendered
  /\ k \in 1..Len(menuItems(contextMenu.image))
  /\ inflight = NoCall
  /\ inflight' = startCall(menuItems(contextMenu.image)[k], contextMenu.image)
  /\ handleCloseContextMenu
  /\ UNCHANGED <<images, lightboxOpen, lightboxIndex, clock>>
  /\ UNCHANGED lightboxVars
  /\ UNCHANGED <<mergeVars, adapterVars>>

copyStepSkipsSettle(pc, ok) ==
  IF ~ok /\ pc \in {"reset", "copy"} THEN "none"
  ELSE CASE pc = "reset" -> "copy"
         [] pc = "copy" -> "refresh"
         [] pc = "refresh" -> "merge"
         [] OTHER -> "none"

\* The statement of handleCopy's try block (main.tsx:185-207) that runs after
\* the await at pc has settled: resetClipboardHash (186), copyFileToClipboard
\* (187), the 100 ms timeout (190), loadImages (192), the merge (194-207).
\* A rejection of reset or copy goes to the catch (208-210); the timeout
\* cannot reject and loadImages catches its own rejection (main.tsx:69-71).
copyStepAfter(pc, ok) ==
  IF ~ok /\ pc \in {"reset", "copy"} THEN "none"
  ELSE CASE pc = "reset" -> "copy"
         [] pc = "copy" -> "settle"
         [] pc = "settle" -> "refresh"
         [] pc = "refresh" -> "merge"
         [] OTHER -> "none"

\* handleCopy (main.tsx:184-211): reset, copy, the 100 ms delay, each awaited;
\* a rejection leaves the try block
CopyAwait(ok) ==
  /\ inflight.op = "copy"
  /\ inflight.pc \in {"reset", "copy", "settle"}
  /\ inflight' =
       IF copyStepAfter(inflight.pc, ok) = "none" THEN NoCall
       ELSE Call("copy", 0, copyStepAfter(inflight.pc, ok))
  /\ UNCHANGED <<images, contextMenu, lightboxOpen, lightboxIndex, lastCloseTime, clock>>
  /\ UNCHANGED lightboxVars
  /\ UNCHANGED <<mergeVars, adapterVars>>

\* await loadImages() of handleCopy (main.tsx:192): loadImages sets the list
\* it got, or keeps the list when getImages rejects (main.tsx:65-72)
CopyRefresh(data, ok) ==
  /\ inflight = Call("copy", 0, "refresh")
  /\ images' = IF ok THEN data ELSE images
  /\ inflight' = Call("copy", 0, copyStepAfter("refresh", ok))
  /\ UNCHANGED <<contextMenu, lightboxOpen, lightboxIndex, lastCloseTime, clock>>
  /\ UNCHANGED lightboxVars
  /\ UNCHANGED <<mergeVars, adapterVars>>

\* the setImages(prev => ...) that ends handleCopy (main.tsx:194-207)
CopyMerge ==
  /\ inflight = Call("copy", 0, "merge")
  /\ images' = merge(images)
  /\ inflight' = NoCall
  /\ UNCHANGED <<contextMenu, lightboxOpen, lightboxIndex, lastCloseTime, clock>>
  /\ UNCHANGED lightboxVars
  /\ UNCHANGED <<mergeVars, adapterVars>>

removeBeforeConfirmed(prev, id, ok) == SelectSeq(prev, LAMBDA img : img.id # id)

\* the list after handleDelete's try block (main.tsx:215-220): the filter of
\* line 217 follows the await, a rejection skips it
removeConfirmed(prev, id, ok) ==
  IF ok THEN SelectSeq(prev, LAMBDA img : img.id # id) ELSE prev

\* handleDelete after deleteImage settles (main.tsx:213-223)
DeleteSettles(ok) ==
  /\ inflight.op = "delete"
  /\ images' = removeConfirmed(images, inflight.id, ok)
  /\ inflight' = NoCall
  /\ UNCHANGED <<contextMenu, lightboxOpen, lightboxIndex, lastCloseTime, clock>>
  /\ UNCHANGED lightboxVars
  /\ UNCHANGED <<mergeVars, adapterVars>>

\* handleClearAll after clearAllImages settles (main.tsx:225-232)
ClearSettles(ok) ==
  /\ inflight = Call("clear", 0, "call")
  /\ images' = IF ok THEN <<>> ELSE images
  /\ inflight' = NoCall
  /\ UNCHANGED <<contextMenu, lightboxOpen, lightboxIndex, lastCloseTime, clock>>
  /\ UNCHANGED lightboxVars
  /\ UNCHANGED <<mergeVars, adapterVars>>

\* loadImages started at mount, when the lightbox closes, or by a clipboard
\* notification (main.tsx:146, 150-153) resolves with the store's list
LoadImages(data) ==
  /\ images' = data
  /\ UNCHANGED <<contextMenu, lightboxOpen, lightboxIndex, lastCloseTime, clock, inflight>>
  /\ UNCHANGED lightboxVars
  /\ UNCHANGED <<mergeVars, adapterVars>>

\* click on the thumbnail at index (ImageCard.handleCardClick ->
\* App.handleImageClick, main.tsx:234-237); indices are 0-based
\* the lightbox's effect copies slideIndex into currentIndex when open or
\* slideIndex changed (ImageLightbox.tsx:162-166)
handleImageClick(index) ==
  /\ index \in 0..(Len(images) - 1)
  /\ lightboxIndex' = index
  /\ lightboxOpen' = TRUE
  /\ currentIndex' = IF lightboxOpen /\ lightboxIndex = index THEN currentIndex ELSE index
  /\ UNCHANGED <<images, contextMenu, lastCloseTime, clock, inflight>>
  /\ UNCHANGED <<lightboxMenu, isClosing, frame>>
  /\ UNCHANGED <<mergeVars, adapterVars>>

\* App.handleCloseLightbox (main.tsx:239-241)
handleCloseLightbox ==
  /\ lightboxOpen
  /\ lightboxOpen' = FALSE
  /\ UNCHANGED <<images, contextMenu, lightboxIndex, lastCloseTime, clock, inflight>>
  /\ UNCHANGED lightboxVars
  /\ UNCHANGED <<mergeVars, adapterVars>>

\* time passes
Tick ==
  /\ clock < StartTime + MaxTicks * TickMs
  /\ clock' = clock + TickMs
  /\ UNCHANGED <<images, contextMenu, lightboxOpen, lightboxIndex, lastCloseTime, inflight>>
  /\ UNCHANGED lightboxVars
  /\ UNCHANGED <<mergeVars, adapterVars>>

Init ==
  /\ AppInitial
  /\ LightboxInitial
  /\ AdapterIdle
  /\ mIn = <<>> /\ mPerm = <<>> /\ mOut = <<>> /\ mOutP = <<>> /\ mOut2 = <<>>
  /\ mpc = "off"

Next ==
  \/ \E c \in Clicks(images) : RightClick(c)
  \/ EscapeKey
  \/ OverlayMouseDown
  \/ OverlayMouseUp
  \/ \E k \in 1..2 : SelectEntry(k)
  \/ \E ok \in BOOLEAN : CopyAwait(ok)
  \/ \E data \in GalleryLists, ok \in BOOLEAN : CopyRefresh(data, ok)
  \/ CopyMerge
  \/ \E ok \in BOOLEAN : DeleteSettles(ok)
  \/ \E ok \in BOOLEAN : ClearSettles(ok)
  \/ \E data \in GalleryLists : LoadImages(data)
  \/ \E index \in 0..(MaxGallery - 1) : handleImageClick(index)
  \/ handleCloseLightbox
  \/ Tick

Spec == Init /\ [][Next]_vars

----------------------------------------------------------------------------
\* ImageLightbox (ImageLightbox.tsx)

\* images[currentIndex], undefined (NoImage) when the index is off the list
imageAt(imgs, index) ==
  IF index \in 0..(Len(imgs) - 1) THEN imgs[index + 1] ELSE NoImage

handleNextNoWrap(prev, n) == prev + 1

\* the updater of handlePrev (ImageLightbox.tsx:241-243); n = slides.length
handlePrev(prev, n) == IF prev > 0 THEN prev - 1 ELSE n - 1

\* the updater of handleNext (ImageLightbox.tsx:245-247)
handleNext(prev, n) == IF prev < n - 1 THEN prev + 1 ELSE 0

\* what the lightbox's handlers read and write: its menu, isClosingRef, the
\* frame callbacks and App's lastCloseTimeRef (through onContextMenuClose)
LightboxState(menu, closing, fr, lastClose) ==
  [menu |-> menu, isClosing |-> closing, frame |-> fr, lastClose |-> lastClose]

\* requestAnimationFrame(() => { [isClosingRef.current = false;]
\*   if (currentImage) setContextMenu({position: {x, y}, image: currentImage}) })
requestAnimationFrame(fr, resets, currentImage, x, y) ==
  Frame(TRUE,
        fr.resets \/ resets,
        fr.sets \/ currentImage # NoImage,
        IF currentImage # NoImage
        THEN [position |-> ContextMenuPosition(x, y), image |-> currentImage]
        ELSE fr.menu)

\* the document capture listener of the open lightbox
\* (ImageLightbox.tsx:171-201); menuRef is contextMenuRef.current
lightboxHandleContextMenu(lb, menuRef, currentImage, x, y) ==
  IF lb.isClosing THEN [lb EXCEPT !.isClosing = FALSE]
  ELSE IF menuRef.position # NoPosition
    THEN [lb EXCEPT !.menu = HiddenMenu,
                    !.frame = requestAnimationFrame(lb.frame, FALSE, currentImage, x, y)]
  ELSE IF currentImage # NoImage
    THEN [lb EXCEPT !.menu = [position |-> ContextMenuPosition(x, y),
                              image |-> currentImage]]
  ELSE lb

\* showContextMenu (ImageLightbox.tsx:210-224), called by the slide's
\* onContextMenu (ImageLightbox.tsx:118-123)
showContextMenu(lb, currentImage, x, y) ==
  [lb EXCEPT !.isClosing = TRUE,
             !.menu = HiddenMenu,
             !.frame = requestAnimationFrame(lb.frame, TRUE, currentImage, x, y)]

lightboxHandleCloseKeepsMenu(lb, now) ==
  [lb EXCEPT !.isClosing = TRUE, !.lastClose = now]

onContextMenuCloseKeepsTime(lastClose, now) == lastClose

\* App's onContextMenuClose (main.tsx:288-290): the new lastCloseTimeRef
onContextMenuClose(lastClose, now) == now

\* ImageLightbox.handleCloseContextMenu (ImageLightbox.tsx:249-253)
lightboxHandleCloseContextMenu(lb, now) ==
  [lb EXCEPT !.isClosing = TRUE,
             !.menu = HiddenMenu,
             !.lastClose = onContextMenuClose(lb.lastClose, now)]

\* the lightbox is drawn while open (ImageLightbox.tsx:232) and mounts its
\* own ContextMenu, without onReposition, when its menu has a position
\* (ImageLightbox.tsx:322-332)
LightboxMenuRendered == lightboxOpen /\ lightboxMenu.position # NoPosition

\* What a right-click in the open lightbox lands on: the dimming overlay of
\* the lightbox's menu while that menu is drawn (ContextMenu.tsx:134-161, it
\* covers the window); otherwise the slide of the displayed record
\* (data-lightbox-image, ImageLightbox.tsx:106-108) or anything else.
LightboxHits(imgs, index, menu) ==
  IF menu.position # NoPosition THEN {"menuOverlay"}
  ELSE IF imageAt(imgs, index) # NoImage THEN {"lightboxImage", "elsewhere"}
  ELSE {"elsewhere"}

\* the lightbox's handlers copy clientX and clientY alike
\* (ImageLightbox.tsx:185, 197, 219): its right-clicks vary in x only
LightboxClicks(imgs, index, menu) ==
  { [x |-> x, y |-> y, hit |-> h] :
      x \in Xs, y \in {z \in Ys : \A w \in Ys : z <= w},
      h \in LightboxHits(imgs, index, menu) }

\* One right-click while the lightbox is open. App's listener is removed
\* (main.tsx:141-144, 175) and the top-level ContextMenu is unmounted
\* (main.tsx:261). On document, in the capture phase, run the lightbox's
\* listener (ImageLightbox.tsx:203) and, while the lightbox's menu is drawn,
\* the listener of its ContextMenu, which has no onReposition and calls
\* onClose (ContextMenu.tsx:45-48). Their order is the order of
\* registration; a commit between the two (flush) removes the listener of
\* the ContextMenu. With no menu drawn the event then reaches the slide,
\* whose onContextMenu calls showContextMenu.
lightboxDispatchContextMenu(lb, imgs, index, now, c, lightboxFirst, flush) ==
  LET currentImage == imageAt(imgs, index)
  IN  IF lb.menu.position = NoPosition
      THEN LET a == lightboxHandleContextMenu(lb, lb.menu, currentImage, c.x, c.y)
           IN  IF c.hit = "lightboxImage"
               THEN showContextMenu(a, currentImage, c.x, c.y)
               ELSE a
      ELSE IF lightboxFirst
      THEN LET a == lightboxHandleContextMenu(lb, lb.menu, currentImage, c.x, c.y)
           IN  IF flush /\ a.menu.position = NoPosition
               THEN a
               ELSE lightboxHandleCloseContextMenu(a, now)
      ELSE LET b == lightboxHandleCloseContextMenu(lb, now)
           IN  lightboxHandleContextMenu(b, IF flush THEN b.menu ELSE lb.menu,
                                         currentImage, c.x, c.y)

\* the lightbox's handlers write their state back
lightboxCommit(lb) ==
  /\ lightboxMenu' = lb.menu
  /\ isClosing' = lb.isClosing
  /\ frame' = lb.frame
  /\ lastCloseTime' = lb.lastClose

LightboxRightClick(c) ==
  /\ lightboxOpen
  /\ \E lb \in { lightboxDispatchContextMenu(
                   LightboxState(lightboxMenu, isClosing, frame, lastCloseTime),
                   images, currentIndex, clock, c, lightboxFirst, flush) :
                 lightboxFirst \in BOOLEAN, flush \in BOOLEAN } :
       lightboxCommit(lb)
  /\ UNCHANGED <<images, contextMenu, lightboxOpen, lightboxIndex, clock, inflight>>
  /\ UNCHANGED currentIndex
  /\ UNCHANGED <<mergeVars, adapterVars>>

\* the next animation frame runs the callbacks that wait for it
AnimationFrame ==
  /\ frame.pending
  /\ isClosing' = IF frame.resets THEN FALSE ELSE isClosing
  /\ lightboxMenu' = IF frame.sets THEN frame.menu ELSE lightboxMenu
  /\ frame' = NoFrame
  /\ UNCHANGED appVars
  /\ UNCHANGED currentIndex
  /\ UNCHANGED <<mergeVars, adapterVars>>

\* keydown Escape with the lightbox's menu drawn: onClose of its ContextMenu
\* (ContextMenu.tsx:30-35) is ImageLightbox.handleCloseContextMenu
LightboxEscapeKey ==
  /\ LightboxMenuRendered
  /\ lightboxCommit(lightboxHandleCloseContextMenu(
       LightboxState(lightboxMenu, isClosing, frame, lastCloseTime), clock))
  /\ UNCHANGED <<images, contextMenu, lightboxOpen, lightboxIndex, clock, inflight>>
  /\ UNCHANGED currentIndex
  /\ UNCHANGED <<mergeVars, adapterVars>>

\* left button pressed on the dimming overlay of the lightbox's menu
LightboxOverlayMouseDown ==
  /\ LightboxMenuRendered
  /\ lightboxCommit(lightboxHandleCloseContextMenu(
       LightboxState(lightboxMenu, isClosing, frame, lastCloseTime), clock))
  /\ UNCHANGED <<images, contextMenu, lightboxOpen, lightboxIndex, clock, inflight>>
  /\ UNCHANGED currentIndex
  /\ UNCHANGED <<mergeVars, adapterVars>>

\* left button released on the dimming overlay of the lightbox's menu
LightboxOverlayMouseUp ==
  /\ LightboxMenuRendered
  /\ lightboxCommit(lightboxHandleCloseContextMenu(
       LightboxState(lightboxMenu, isClosing, frame, lastCloseTime), clock))
  /\ UNCHANGED <<images, contextMenu, lightboxOpen, lightboxIndex, clock, inflight>>
  /\ UNCHANGED currentIndex
  /\ UNCHANGED <<mergeVars, adapterVars>>

\* click on the k-th entry of the lightbox's menu: item.onClick() then
\* onClose() (ContextMenu.tsx:183-186). The entries call
\* ImageLightbox.handleCopy (263-268): App.handleCopy starts, the menu closes;
\* ImageLightbox.handleDelete (255-261): App.handleDelete starts, the menu
\* closes, onClose() closes the lightbox; onClearAll is () => {} (329).
LightboxSelectEntry(k) ==
  /\ LightboxMenuRendered
  /\ k \in 1..Len(menuItems(lightboxMenu.image))
  /\ inflight = NoCall
  /\ LET entry == menuItems(lightboxMenu.image)[k]
         lb    == LightboxState(lightboxMenu, isClosing, frame, lastCloseTime)
     IN  /\ inflight' = IF entry = "clear" THEN NoCall
                        ELSE startCall(entry, lightboxMenu.image)
         /\ lightboxOpen' = (entry # "delete")
         /\ lightboxCommit(
              lightboxHandleCloseContextMenu(
                IF entry = "clear" THEN lb
                ELSE lightboxHandleCloseContextMenu(lb, clock),
                clock))
  /\ UNCHANGED <<images, contextMenu, lightboxIndex, clock>>
  /\ UNCHANGED currentIndex
  /\ UNCHANGED <<mergeVars, adapterVars>>

\* click on the custom previous button (ImageLightbox.tsx:59-75, 310)
PrevButton ==
  /\ lightboxOpen
  /\ currentIndex' = handlePrev(currentIndex, Len(images))
  /\ UNCHANGED appVars
  /\ UNCHANGED <<lightboxMenu, isClosing, frame>>
  /\ UNCHANGED <<mergeVars, adapterVars>>

\* click on the custom next button (ImageLightbox.tsx:40-56, 311)
NextButton ==
  /\ lightboxOpen
  /\ currentIndex' = handleNext(currentIndex, Len(images))
  /\ UNCHANGED appVars
  /\ UNCHANGED <<lightboxMenu, isClosing, frame>>
  /\ UNCHANGED <<mergeVars, adapterVars>>

\* LightboxSpec exercises the lightbox over the lists of two records of
\* different identity; the grid behind it is right-clicked at one point
\* only (every kind of target), and the clock stands still.
LightboxRecords == { ImageMetadata(1, 1, 1), ImageMetadata(2, 3, 3) }

LightboxLists ==
  { L \in GalleryLists : \A k \in 1..Len(L) : L[k] \in LightboxRecords }

GridClicks(imgs) ==
  { c \in Clicks(imgs) : /\ \A x \in Xs : c.x <= x
                         /\ \A y \in Ys : c.y <= y }

LightboxNext ==
  \/ \E c \in GridClicks(images) : RightClick(c)
  \/ EscapeKey
  \/ OverlayMouseDown
  \/ OverlayMouseUp
  \/ \E k \in 1..2 : SelectEntry(k)
  \/ \E ok \in BOOLEAN : CopyAwait(ok)
  \/ \E data \in LightboxLists, ok \in BOOLEAN : CopyRefresh(data, ok)
  \/ CopyMerge
  \/ \E ok \in BOOLEAN : DeleteSettles(ok)
  \/ \E ok \in BOOLEAN : ClearSettles(ok)
  \/ \E data \in LightboxLists : LoadImages(data)
  \/ \E index \in 0..(MaxGallery - 1) : handleImageClick(index)
  \/ handleCloseLightbox
  \/ \E c \in LightboxClicks(images, currentIndex, lightboxMenu) : LightboxRightClick(c)
  \/ AnimationFrame
  \/ LightboxEscapeKey
  \/ LightboxOverlayMouseDown
  \/ LightboxOverlayMouseUp
  \/ \E k \in 1..2 : LightboxSelectEntry(k)
  \/ PrevButton
  \/ NextButton

LightboxSpec == Init /\ [][LightboxNext]_vars

\* NavigationSpec: the lightbox has been opened by a click on a thumbnail
\* of a loaded list (LoadImages, then handleImageClick), and the previous
\* and next buttons are pressed.
NavigationInit ==
  /\ images \in InputLists
  /\ lightboxOpen = TRUE
  /\ lightboxIndex \in 0..(Len(images) - 1)
  /\ currentIndex = lightboxIndex
  /\ contextMenu = HiddenMenu
  /\ lastCloseTime = 0
  /\ clock = StartTime
  /\ inflight = NoCall
  /\ lightboxMenu = HiddenMenu /\ isClosing = FALSE /\ frame = NoFrame
  /\ AdapterIdle
  /\ mIn = <<>> /\ mPerm = <<>> /\ mOut = <<>> /\ mOutP = <<>> /\ mOut2 = <<>>
  /\ mpc = "off"

NavigationNext == PrevButton \/ NextButton

NavigationSpec == NavigationInit /\ [][NavigationNext]_vars

----------------------------------------------------------------------------
\* Gallery store adapter: services/api (part_000)

\* isTauriEnvironment (part_000:8-13): the cache after the call ...
isTauriCacheAfter(cache, present) ==
  IF cache = "null" THEN (IF present THEN "true" ELSE "false") ELSE cache

\* ... and the answer
isTauriEnvironment(cache, present) == isTauriCacheAfter(cache, present) = "true"

\* invoke(command, args) as the adapter sees it: the collaborator resolves
\* with one of values or rejects
invoke(op, values) ==
  { Return(op, "resolved", v, TRUE) : v \in values }
    \cup { Return(op, "rejected", <<>>, TRUE) }

\* the shape of the adapter functions: guard on isTauriEnvironment(), then
\* return await invoke(command, args); degraded is what the guard returns
adapterCall(command, arg, degraded, settled) ==
  /\ isTauriCache' = isTauriCacheAfter(isTauriCache, tauri)
  /\ IF ~isTauriEnvironment(isTauriCache, tauri)
     THEN ret' = degraded /\ invoked' = invoked
     ELSE ret' \in settled /\ invoked' = invoked \cup {<<command, arg>>}
  /\ UNCHANGED tauri

\* what read_image_file can deliver: the bytes of a file
FileBytes == { <<>>, <<137, 80>> }

\* the locators a caller can pass
Paths == { r.path : r \in StoreRecords }

\* getImages (part_000:15-20)
getImages ==
  /\ adapterCall("get_images", 0,
                   Return("getImages", "resolved", <<>>, FALSE),
                   invoke("getImages", GalleryLists))
  /\ UNCHANGED <<appVars, lightboxVars, mergeVars>>

\* deleteImage (part_000:22-27)
deleteImage(id) ==
  /\ adapterCall("delete_image", id,
                   Return("deleteImage", "resolved", <<>>, FALSE),
                   invoke("deleteImage", {<<>>}))
  /\ UNCHANGED <<appVars, lightboxVars, mergeVars>>

\* clearAllImages (part_000:29-34)
clearAllImages ==
  /\ adapterCall("clear_all_images", 0,
                   Return("clearAllImages", "resolved", <<>>, FALSE),
                   invoke("clearAllImages", {<<>>}))
  /\ UNCHANGED <<appVars, lightboxVars, mergeVars>>

\* resetClipboardHash (part_000:36-41)
resetClipboardHash ==
  /\ adapterCall("reset_clipboard_hash", 0,
                   Return("resetClipboardHash", "resolved", <<>>, FALSE),
                   invoke("resetClipboardHash", {<<>>}))
  /\ UNCHANGED <<appVars, lightboxVars, mergeVars>>

\* copyFileToClipboard (part_000:43-48)
copyFileToClipboard(path) ==
  /\ adapterCall("copy_file_to_clipboard", path,
                   Return("copyFileToClipboard", "resolved", <<>>, FALSE),
                   invoke("copyFileToClipboard", {<<>>}))
  /\ UNCHANGED <<appVars, lightboxVars, mergeVars>>

\* readImageFile (part_000:64-70): throws outside Tauri
readImageFile(path) ==
  /\ adapterCall("read_image_file", path,
                   Return("readImageFile", "rejected", <<>>, FALSE),
                   invoke("readImageFile", FileBytes))
  /\ UNCHANGED <<appVars, lightboxVars, mergeVars>>

\* the module is loaded inside the Tauri webview or in a plain browser
AdapterInit ==
  /\ tauri \in BOOLEAN
  /\ isTauriCache = "null"
  /\ invoked = {}
  /\ ret = NoReturn
  /\ AppInitial
  /\ LightboxInitial
  /\ mIn = <<>> /\ mPerm = <<>> /\ mOut = <<>> /\ mOutP = <<>> /\ mOut2 = <<>>
  /\ mpc = "off"

AdapterNext ==
  \/ getImages
  \/ \E id \in 1..NumIds : deleteImage(id)
  \/ clearAllImages
  \/ resetClipboardHash
  \/ \E path \in Paths : copyFileToClipboard(path)
  \/ \E path \in Paths : readImageFile(path)

AdapterSpec == AdapterInit /\ [][AdapterNext]_vars

----------------------------------------------------------------------------
\* Properties of the merge (checked under MergeSpec)

IdsOf(L) == {L[k].id : k \in 1..Len(L)}

MinCreatedAt(L, i) ==
  CHOOSE t \in {L[k].createdAt : k \in {j \in 1..Len(L) : L[j].id = i}} :
    \A k \in 1..Len(L) : L[k].id = i => t <= L[k].createdAt

IdCreatedAtPairs(L) == [k \in 1..Len(L) |-> <<L[k].id, L[k].createdAt>>]

\* C1: the merged list holds exactly one record per distinct identity of the
\* input, no other record, and the record kept for an identity is a record of
\* the input whose createdAt is the minimum of its identity group.
C1_OnePerIdentityMinimal ==
  mpc # "start" =>
    /\ \A k \in 1..Len(mOut) : \E j \in 1..Len(mIn) : mIn[j] = mOut[k]
    /\ \A i \in IdsOf(mIn) :
         /\ Cardinality({k \in 1..Len(mOut) : mOut[k].id = i}) = 1
         /\ \A k \in 1..Len(mOut) :
              mOut[k].id = i => mOut[k].createdAt = MinCreatedAt(mIn, i)

\* a merged input in which one identity has records with different createdAt
C1_Witness ==
  /\ mpc = "merged"
  /\ Len(mOut) < Len(mIn)
  /\ \E a, b \in 1..Len(mIn) :
       mIn[a].id = mIn[b].id /\ mIn[a].createdAt < mIn[b].createdAt

\* C2: the merged list is sorted by createdAt in descending order.
C2_SortedDescending ==
  mpc # "start" =>
    \A k \in 1..(Len(mOut) - 1) : mOut[k].createdAt >= mOut[k + 1].createdAt

\* an input in ascending order whose merge had to swap two identities
C2_Witness ==
  /\ mpc = "merged"
  /\ Len(mIn) = 2
  /\ mIn[1].id # mIn[2].id
  /\ mIn[1].createdAt < mIn[2].createdAt
  /\ mOut = <<mIn[2], mIn[1]>>

\* C3: merging a merged list again returns it unchanged, records and order.
C3_Idempotent == mpc = "remerged" => mOut2 = mOut

\* a second merge of a list the first merge shortened, with a tie in createdAt
C3_Witness ==
  /\ mpc = "remerged"
  /\ Len(mOut) < Len(mIn)
  /\ Len(mOut) >= 2
  /\ mOut[1].createdAt = mOut[2].createdAt

\* C4 (as claimed): among the records of an identity with equal minimal
\* createdAt, the merge keeps the one that is earliest in the input list.
C4_TieKeepsEarliest ==
  mpc # "start" =>
    \A k \in 1..Len(mOut) :
      LET i     == mOut[k].id
          ties  == {j \in 1..Len(mIn) :
                      mIn[j].id = i /\ mIn[j].createdAt = MinCreatedAt(mIn, i)}
          first == CHOOSE j \in ties : \A h \in ties : j <= h
      IN  mOut[k] = mIn[first]

\* C5 (as claimed): the merge of any arrival order of the same records gives
\* the same sequence of (identity, createdAt) pairs.
C5_ArrivalOrderIndependent ==
  mpc # "start" => IdCreatedAtPairs(mOutP) = IdCreatedAtPairs(mOut)

----------------------------------------------------------------------------
\* Properties of the right-click routing (checked under Spec)

\* C6 (as claimed): a right-click that arrives less than 300 ms after the
\* last menu close, while the menu is hidden, leaves the menu hidden,
\* whatever is under the pointer.
C6_SuppressionWindowHonored ==
  [][ \A c \in Clicks(images) :
        ( /\ lastCloseTime > 0
          /\ clock - lastCloseTime < 300
          /\ contextMenu.position = NoPosition
          /\ RightClick(c) )
        => contextMenu'.position = NoPosition ]_vars

\* C7: with the lightbox closed, no menu open and the suppression window
\* over, a right-click on the thumbnail of a record of the list sets the menu
\* state to the click point and that record.
C7_ThumbnailOpensItemMenu ==
  [][ \A c \in Clicks(images) :
        ( /\ ~lightboxOpen
          /\ contextMenu.position = NoPosition
          /\ clock - lastCloseTime >= 300
          /\ c.hit.kind = "card"
          /\ \E k \in 1..Len(images) : images[k].path = c.hit.path
          /\ RightClick(c) )
        => /\ contextMenu'.position = [x |-> c.x, y |-> c.y]
           /\ \E k \in 1..Len(images) :
                images[k].path = c.hit.path /\ contextMenu'.image = images[k] ]_vars

\* the item menu of the second record of a two-record list, opened after a
\* menu close whose suppression window is over
C7_Witness ==
  /\ ~lightboxOpen
  /\ Len(images) = 2
  /\ contextMenu.image = images[2]
  /\ contextMenu.position # NoPosition
  /\ lastCloseTime > 0
  /\ clock - lastCloseTime >= 300

\* C8 (as claimed): with an empty list, a right-click on the empty gallery
\* surface leaves the menu hidden.
C8_EmptyGalleryNoMenu ==
  [][ \A c \in Clicks(images) :
        ( /\ images = <<>>
          /\ c.hit.kind = "main"
          /\ RightClick(c) )
        => contextMenu'.position = NoPosition ]_vars

\* C9 (as claimed): opening the lightbox while the top-level menu has a
\* position leaves the menu state without a position.
C9_OpeningLightboxClosesMenu ==
  [][ ( /\ contextMenu.position # NoPosition
        /\ \E index \in 0..(Len(images) - 1) : handleImageClick(index) )
      => contextMenu'.position = NoPosition ]_vars

\* C10: the rendered anchor of a menu at (x, y) is (x - 192, y) when the
\* distance from x to the right edge of the window is below 192, and (x, y)
\* otherwise, a distance of exactly 192 included.
C10_HorizontalFlip ==
  MenuRendered =>
    LET p == contextMenu.position
        a == adjustedPosition(p)
    IN  /\ a.y = p.y
        /\ InnerWidth - p.x < 192 => a.x = p.x - 192
        /\ InnerWidth - p.x >= 192 => a.x = p.x

\* a rendered menu less than 192 from the right edge, flipped
C10_Witness ==
  /\ MenuRendered
  /\ InnerWidth - contextMenu.position.x < 192
  /\ adjustedPosition(contextMenu.position).x = contextMenu.position.x - 192

----------------------------------------------------------------------------
\* Properties of the lightbox

\* C11: over a list of n >= 1 records and from an index i of the list, the
\* next button leads to i + 1 when i < n - 1 and to 0 when i = n - 1; the
\* previous button leads to i - 1 when i > 0 and to n - 1 when i = 0.
C11_NavigationWraps ==
  [][ LET n == Len(images)
          i == currentIndex
      IN  (n >= 1 /\ i \in 0..(n - 1)) =>
            /\ (NextButton /\ i < n - 1) => currentIndex' = i + 1
            /\ (NextButton /\ i = n - 1) => currentIndex' = 0
            /\ (PrevButton /\ i > 0) => currentIndex' = i - 1
            /\ (PrevButton /\ i = 0) => currentIndex' = n - 1 ]_vars

\* a lightbox opened on the first of three records shows the third
C11_Witness ==
  /\ lightboxOpen
  /\ Len(images) = 3
  /\ lightboxIndex = 0
  /\ currentIndex = 2

\* C12 (as claimed): the lightbox passes from open to closed only in an
\* explicit close or in the step in which the store's delete resolves
\* successfully; a delete that rejects leaves it open.
C12_ClosedOnlyByCloseOrConfirmedDelete ==
  [][ (lightboxOpen /\ ~lightboxOpen') =>
        (handleCloseLightbox \/ DeleteSettles(TRUE)) ]_vars

\* a step in which the store call of an entry settles
StoreCallSettles ==
  \/ \E ok \in BOOLEAN : CopyAwait(ok)
  \/ \E data \in LightboxLists, ok \in BOOLEAN : CopyRefresh(data, ok)
  \/ CopyMerge
  \/ \E ok \in BOOLEAN : DeleteSettles(ok)
  \/ \E ok \in BOOLEAN : ClearSettles(ok)

\* C13: selecting an entry of the top-level menu or of the lightbox's menu
\* starts the store action of that entry (copy, delete, clear-all) and leaves
\* that menu hidden; no step in which the store action then resolves or
\* rejects changes either menu.
C13_SelectionStartsActionAndHidesMenu ==
  [][ /\ \A k \in 1..2 :
           (MenuRendered /\ SelectEntry(k)) =>
             /\ inflight'.op = menuItems(contextMenu.image)[k]
             /\ contextMenu'.position = NoPosition
      /\ \A k \in 1..2 :
           (LightboxMenuRendered /\ LightboxSelectEntry(k)) =>
             /\ inflight'.op = menuItems(lightboxMenu.image)[k]
             /\ lightboxMenu'.position = NoPosition
      /\ (inflight # NoCall /\ StoreCallSettles) =>
             /\ contextMenu' = contextMenu
             /\ lightboxMenu' = lightboxMenu ]_vars

\* the copy entry of the lightbox's menu has just been selected
C13_Witness ==
  /\ lightboxOpen
  /\ inflight = Call("copy", 0, "reset")
  /\ lightboxMenu.position = NoPosition
  /\ isClosing
  /\ lastCloseTime = clock
  /\ contextMenu.position = NoPosition

\* C14: every step that closes the top-level menu or the lightbox's menu by
\* Escape, by the left button going down or up on the dimming overlay, or by
\* selecting an entry, sets lastCloseTimeRef to the time of that step.
C14_EveryClosurePathStampsTime ==
  [][ /\ ( /\ MenuRendered
            /\ \/ EscapeKey
               \/ OverlayMouseDown
               \/ OverlayMouseUp
               \/ \E k \in 1..2 : SelectEntry(k) )
          => (contextMenu'.position = NoPosition /\ lastCloseTime' = clock)
      /\ ( /\ LightboxMenuRendered
            /\ \/ LightboxEscapeKey
               \/ LightboxOverlayMouseDown
               \/ LightboxOverlayMouseUp
               \/ \E k \in 1..2 : LightboxSelectEntry(k) )
          => (lightboxMenu'.position = NoPosition /\ lastCloseTime' = clock) ]_vars

\* the lightbox's menu has been closed with no entry selected, and no
\* top-level menu was ever opened
C14_Witness ==
  /\ lightboxOpen
  /\ lightboxMenu.position = NoPosition
  /\ isClosing
  /\ ~frame.pending
  /\ inflight = NoCall
  /\ lastCloseTime = clock
  /\ contextMenu = HiddenMenu

----------------------------------------------------------------------------
\* Properties of the store calls (checked under Spec)

\* C15: the awaits of handleCopy settle in the order reset, copy, settle
\* delay, refresh, merge, each step starting only when the one before it has
\* settled; when reset or copy rejects the sequence ends there: no refresh is
\* issued and no merge is applied.
C15_CopySequenceInOrder ==
  [][ inflight.op = "copy" =>
        /\ inflight' # inflight =>
              \/ <<inflight.pc, inflight'.pc>> \in
                    { <<"reset", "copy">>, <<"copy", "settle">>,
                      <<"settle", "refresh">>, <<"refresh", "merge">> }
              \/ inflight' = NoCall /\ inflight.pc \in {"reset", "copy", "merge"}
        /\ (inflight.pc \in {"reset", "copy"} /\ CopyAwait(FALSE)) =>
              (inflight' = NoCall /\ images' = images)
        /\ (\E data \in GalleryLists, ok \in BOOLEAN : CopyRefresh(data, ok)) =>
              inflight.pc = "refresh"
        /\ CopyMerge => inflight.pc = "merge" ]_vars

\* a copy whose reset, copy and settle delay are over and whose refresh has
\* delivered a list: the merge is next
C15_Witness ==
  /\ inflight = Call("copy", 0, "merge")
  /\ Len(images) = 2
  /\ images[1].id = images[2].id

\* C16: a step in which deleteImage or clearAllImages rejects leaves the
\* list unchanged; selecting the entry does not change the list either: the
\* records of the deleted identity leave the list, and the list is emptied,
\* in the step in which the call resolves.
C16_RemovalOnlyAfterSuccess ==
  [][ /\ (inflight.op = "delete" /\ DeleteSettles(FALSE)) => images' = images
      /\ (inflight.op = "clear" /\ ClearSettles(FALSE)) => images' = images
      /\ (MenuRendered /\ \E k \in 1..2 : SelectEntry(k)) => images' = images
      /\ (inflight.op = "delete" /\ DeleteSettles(TRUE)) =>
            /\ \A k \in 1..Len(images') : images'[k].id # inflight.id
            /\ Len(images') =
                 Cardinality({k \in 1..Len(images) : images[k].id # inflight.id})
      /\ (inflight.op = "clear" /\ ClearSettles(TRUE)) => images' = <<>> ]_vars

\* delete has been selected for a record and has not settled: both records
\* of its identity are still in the list
C16_Witness ==
  /\ inflight.op = "delete"
  /\ contextMenu.position = NoPosition
  /\ Len(images) = 2
  /\ images[1].id = inflight.id
  /\ images[2].id = inflight.id

----------------------------------------------------------------------------
\* Properties of the store adapter (checked under AdapterSpec)

\* C17 (as claimed): outside Tauri every call of getImages, readImageFile,
\* deleteImage, clearAllImages, resetClipboardHash and copyFileToClipboard
\* resolves, with an empty value, and sends nothing to the collaborator.
C17_UnavailableDegradesSilently ==
  (~tauri /\ ret.op # "none") =>
    /\ ret.outcome = "resolved"
    /\ ret.value = <<>>
    /\ invoked = {}

----------------------------------------------------------------------------
\* Properties of the router's early returns (checked under Spec)

\* C18: while the top-level menu is open the router makes no decision for
\* any right-click, whatever the order of the two listeners the menu state
\* after the click is the one the presenter's handler sets, and a step that
\* moves the open menu leaves the list and lastCloseTimeRef unchanged.
C18_OpenMenuRouterStandsDown ==
  /\ [] ( MenuRendered =>
            \A c \in Clicks(images) :
              /\ ~handleNativeContextMenu(contextMenu, images, lastCloseTime, clock, c).set
              /\ \A presenterFirst \in BOOLEAN, flush \in BOOLEAN :
                   dispatchContextMenu(contextMenu, images, lastCloseTime, clock, c,
                                       presenterFirst, flush)
                     = presenterHandleNativeContextMenu(images, c).menu )
  /\ [][ ( /\ MenuRendered
            /\ contextMenu'.position # NoPosition
            /\ contextMenu' # contextMenu )
          => (images' = images /\ lastCloseTime' = lastCloseTime) ]_vars

\* an item menu is open and the suppression window of an earlier close is
\* over: only the open menu keeps the router from deciding
C18_Witness ==
  /\ MenuRendered
  /\ contextMenu.image # NoImage
  /\ lastCloseTime > 0
  /\ clock - lastCloseTime >= DEBOUNCE_MS

\* C19 (as claimed): for every right-click the router can receive, it calls
\* preventDefault exactly when it emits a menu decision; on the final branch
\* that emits none it leaves the platform menu alone.
C19_DefaultSuppressedExactlyOnDecision ==
  ~lightboxOpen =>
    \A c \in Clicks(images) :
      preventDefault(contextMenu, lastCloseTime, clock)
        <=> handleNativeContextMenu(contextMenu, images, lastCloseTime, clock, c).set

----------------------------------------------------------------------------
\* Properties of the two menus together (checked under LightboxSpec)

\* C20: while the lightbox is open no step, hence no right-click, changes
\* the top-level menu state, and the top-level router's right-click is not
\* enabled; in every reachable state at most one of the two menus is drawn.
C20_TopLevelStandsDownWhileOpen ==
  /\ [] ~(MenuRendered /\ LightboxMenuRendered)
  /\ [][ lightboxOpen => contextMenu' = contextMenu ]_vars

\* the lightbox was opened over an open top-level menu and a right-click in
\* it has drawn the lightbox's menu: the top-level menu state still has its
\* position and is not drawn
C20_Witness ==
  /\ lightboxOpen
  /\ contextMenu.position # NoPosition
  /\ lightboxMenu.position # NoPosition
  /\ ~MenuRendered

----------------------------------------------------------------------------
\* Properties of repositioning (checked under Spec)

\* C21 (as claimed): a right-click that finds the top-level menu open leaves
\* the item menu of the record under the pointer; else, on the gallery
\* surface with a non-empty list, the clear-all menu; else (outside <main>,
\* or an empty list) no menu.
C21_RepositionResolvesOrCloses ==
  MenuRendered =>
    \A c \in Clicks(images) :
      \A presenterFirst \in BOOLEAN, flush \in BOOLEAN :
        LET after == dispatchContextMenu(contextMenu, images, lastCloseTime, clock, c,
                                         presenterFirst, flush)
        IN  IF c.hit.kind = "card"
            THEN /\ after.position = ContextMenuPosition(c.x, c.y)
                 /\ after.image # NoImage
                 /\ after.image.path = c.hit.path
            ELSE IF c.hit.kind = "main" /\ Len(images) > 0
            THEN after = [position |-> ContextMenuPosition(c.x, c.y), image |-> NoImage]
            ELSE after.position = NoPosition

\* C22 (as claimed): no step takes a drawn menu from one position directly
\* to another position; a reposition shows the hidden menu state first.
C22_RepositionPassesThroughHidden ==
  [][ (MenuRendered /\ contextMenu'.position # NoPosition)
        => contextMenu'.position = contextMenu.position ]_vars

----------------------------------------------------------------------------
\* Properties of the menu's entries (checked under LightboxSpec)

\* C23: a drawn menu, top-level or overlay, offers exactly copy and delete
\* when its target is present and exactly clear-all when it is absent, and a
\* selection starts only an operation of that list.
C23_EntriesFollowTargetPresence ==
  /\ [](\A menu \in {contextMenu, lightboxMenu} :
          menu.position # NoPosition =>
            menuItems(menu.image) =
              IF menu.image # NoImage THEN <<"copy", "delete">> ELSE <<"clear">>)
  /\ [][ (inflight = NoCall /\ inflight' # NoCall) =>
           LET menu == IF MenuRendered THEN contextMenu ELSE lightboxMenu
           IN  \/ menu.image # NoImage /\ inflight'.op \in {"copy", "delete"}
               \/ menu.image = NoImage /\ inflight'.op = "clear" ]_vars

C23_Witness ==
  /\ MenuRendered
  /\ contextMenu.image = NoImage
  /\ menuItems(contextMenu.image) = <<"clear">>
  /\ Len(images) > 0

----------------------------------------------------------------------------
\* Resolution of a locator that names no record (ResolveSpec)
\*
\* The router and onReposition look the element's data-image-path up in the
\* list (main.tsx:97, 113, 271) and treat a miss explicitly.  Here the lookup
\* is given elements whose path no record of the list carries: a thumbnail
\* ([data-image-card]) or a full-view image ([data-lightbox-image]).

StalePaths(imgs) ==
  { r.path : r \in StoreRecords } \ { imgs[k].path : k \in 1..Len(imgs) }

StaleClicks(imgs) ==
  { [x |-> x, y |-> y, hit |-> Hit(kind, p)] :
      x \in Xs, y \in Ys, kind \in {"card", "lightboxImage"}, p \in StalePaths(imgs) }

StaleRightClick(c) ==
  /\ PresenterMounted
  /\ UNCHANGED <<images, lightboxOpen, lightboxIndex, lastCloseTime, clock, inflight>>
  /\ UNCHANGED lightboxVars
  /\ UNCHANGED <<mergeVars, adapterVars>>
  /\ contextMenu' \in
       { dispatchContextMenu(contextMenu, images, lastCloseTime, clock, c,
                             presenterFirst, flush) :
           presenterFirst \in BOOLEAN, flush \in BOOLEAN }

ResolveInit ==
  /\ images \in GalleryLists
  /\ contextMenu = HiddenMenu
  /\ lightboxOpen = FALSE
  /\ lightboxIndex = 0
  /\ lastCloseTime = 0
  /\ clock = StartTime
  /\ inflight = NoCall
  /\ LightboxInitial
  /\ AdapterIdle
  /\ mIn = <<>> /\ mPerm = <<>> /\ mOut = <<>> /\ mOutP = <<>> /\ mOut2 = <<>>
  /\ mpc = "off"

ResolveNext ==
  \/ \E c \in StaleClicks(images) : StaleRightClick(c)
  \/ EscapeKey
  \/ Tick

ResolveSpec == ResolveInit /\ [][ResolveNext]_vars

\* C24 (as claimed): a right-click on an element whose locator names no
\* record leaves the clear-all menu when the element is inside <main> and the
\* list is non-empty, and no menu otherwise; the menu never carries a record
\* that is not in the list.
C24_StaleLocatorHasNoTarget ==
  \A c \in StaleClicks(images) :
    \A presenterFirst \in BOOLEAN, flush \in BOOLEAN :
      LET after == dispatchContextMenu(contextMenu, images, lastCloseTime, clock, c,
                                       presenterFirst, flush)
      IN  /\ after.image # NoImage => \E k \in 1..Len(images) : images[k] = after.image
          /\ IF insideMain(c.hit) /\ Len(images) > 0
              THEN after = [position |-> ContextMenuPosition(c.x, c.y), image |-> NoImage]
              ELSE after.position = NoPosition

----------------------------------------------------------------------------
\* Properties of the lightbox's menu (checked under LightboxSpec)

\* C25 (as claimed): with the lightbox open on a record and its menu hidden,
\* every right-click brings up the item menu of that record at the pointer,
\* at once or in the frame callback it schedules.
C25_HiddenMenuRightClickShowsItemMenu ==
  (lightboxOpen /\ imageAt(images, currentIndex) # NoImage
                /\ lightboxMenu.position = NoPosition) =>
    \A c \in LightboxClicks(images, currentIndex, lightboxMenu) :
      \A lightboxFirst \in BOOLEAN, flush \in BOOLEAN :
        LET after == lightboxDispatchContextMenu(
                       LightboxState(lightboxMenu, isClosing, frame, lastCloseTime),
                       images, currentIndex, clock, c, lightboxFirst, flush)
            shown == [position |-> ContextMenuPosition(c.x, c.y),
                      image |-> imageAt(images, currentIndex)]
        IN  \/ after.menu = shown
            \/ after.frame.pending /\ after.frame.sets /\ after.frame.menu = shown

----------------------------------------------------------------------------
\* One copy action against concurrent refreshes (CopySpec)
\*
\* handleCopy has passed its awaits up to the 100 ms delay and waits for its
\* own loadImages (main.tsx:192).  Clipboard notifications start further
\* loadImages calls (main.tsx:150-153) whose results arrive at any time and
\* are applied by setImages(data); the user opens and closes the lightbox
\* meanwhile.  No other store call is started, so inflight = NoCall says
\* that this copy has run its refresh and its merge.

CopyInit ==
  /\ images \in GalleryLists
  /\ contextMenu = HiddenMenu
  /\ lightboxOpen = FALSE
  /\ lightboxIndex = 0
  /\ lastCloseTime = StartTime
  /\ clock = StartTime
  /\ inflight = Call("copy", 0, "refresh")
  /\ LightboxInitial
  /\ AdapterIdle
  /\ mIn = <<>> /\ mPerm = <<>> /\ mOut = <<>> /\ mOutP = <<>> /\ mOut2 = <<>>
  /\ mpc = "off"

CopyNext ==
  \/ \E data \in GalleryLists, ok \in BOOLEAN : CopyRefresh(data, ok)
  \/ CopyMerge
  \/ \E data \in GalleryLists : LoadImages(data)
  \/ \E index \in 0..(MaxGallery - 1) : handleImageClick(index)
  \/ handleCloseLightbox

CopySpec == CopyInit /\ [][CopyNext]_vars

\* C26 (as claimed): once the copy action has run its refresh and its merge,
\* the displayed list holds at most one record per identity, whatever
\* refresh results arrived before, between or after the two.
C26_OnePerIdentityAfterCopy ==
  inflight = NoCall =>
    \A a, b \in 1..Len(images) : images[a].id = images[b].id => a = b

----------------------------------------------------------------------------
\* Properties of the lightbox's index and menu state (LightboxSpec)

\* C27 (as claimed): while the lightbox is open its current index is never
\* negative and, when the list has records, is below the list's length.
C27_CurrentIndexWithinList ==
  lightboxOpen =>
    /\ currentIndex >= 0
    /\ Len(images) > 0 => currentIndex < Len(images)

\* C28 (as claimed): when a close path (Escape, left button on the dimming
\* overlay, entry selection) hides the lightbox's menu, no frame callback
\* scheduled earlier is still waiting to set the menu again.
C28_ClosedMenuNotReopenedByFrame ==
  [][ ( /\ LightboxMenuRendered
        /\ \/ LightboxEscapeKey
           \/ LightboxOverlayMouseDown
           \/ LightboxOverlayMouseUp
           \/ \E k \in 1..2 : LightboxSelectEntry(k) )
      => ~(frame'.pending /\ frame'.sets) ]_vars

\* C29: in every reachable state a menu state without a position has no
\* target, for the top-level menu and for the lightbox's menu, and the
\* lightbox's menu state with a position has a target.
C29_MenuStateWellFormed ==
  /\ contextMenu.position = NoPosition => contextMenu.image = NoImage
  /\ lightboxMenu.position = NoPosition => lightboxMenu.image = NoImage
  /\ lightboxMenu.position # NoPosition => lightboxMenu.image # NoImage

C29_Witness ==
  /\ LightboxMenuRendered
  /\ lightboxMenu.image # NoImage
  /\ lightboxMenu.image = imageAt(images, currentIndex)
  /\ contextMenu = HiddenMenu
  /\ lastCloseTime > 0

====
